---- MODULE Spec2Model ----
(***************************************************************************)
(* Model of bg-remover: the Model Session module (lib/process:             *)
(* initializeModel, processImage) and the App component that drives it.    *)
(*                                                                         *)
(* Four specifications share the module:                                   *)
(*   Spec / FairSpec  the App component with the session it drives         *)
(*   SpecLib          the session module called directly, at any time      *)
(*   SpecNames        the file name derivation of processImage             *)
(*   SpecPixels       the two pixel loops of processImage                  *)
(***************************************************************************)
EXTENDS Integers, Sequences, FiniteSets, TLC

VARIABLES
    model,          \* state.model is non-null
    processor,      \* state.processor is non-null
    initPc,         \* position of the one call of initializeModel
    isLoading,      \* App: useState(true)
    image,          \* App: useState(null), the current Image Record
    runs,           \* the calls of processImage made so far, in call order
    now,            \* Date.now()
    lastSelected,   \* history: the file of the latest file selection
    nameIn,         \* SpecNames: image.name
    namePc,         \* SpecNames: position in the name derivation
    maskFileName,   \* SpecNames: name given to maskFile
    processedFileName, \* SpecNames: name given to processedFile
    imgW, imgH,     \* SpecPixels: img.width, img.height
    imgData,        \* SpecPixels: RGBA bytes of the decoded source bitmap
    maskData,       \* SpecPixels: the Pixel Buffer, one byte per pixel
    maskPixelData,  \* SpecPixels: maskPixelData.data
    pixelData,      \* SpecPixels: pixelData.data
    pxPc,           \* SpecPixels: position in processImage's canvas code
    pxI             \* SpecPixels: loop variable i

appVars   == <<model, processor, initPc, isLoading, image, runs, now, lastSelected>>
nameVars  == <<nameIn, namePc, maskFileName, processedFileName>>
pixelVars == <<imgW, imgH, imgData, maskData, maskPixelData, pixelData, pxPc, pxI>>
vars      == <<appVars, nameVars, pixelVars>>

-----------------------------------------------------------------------------
(* Bounds *)

MaxRuns == 2        \* calls of processImage in one behaviour
MaxUploads == 2     \* file selections in one behaviour
MaxNow == 1         \* ticks of the clock behind Date.now()
MaxNameLen == 4     \* characters in a source file name
MaxPixels == 4      \* width * height of a source bitmap

-----------------------------------------------------------------------------
(* Values *)

Null == [tag |-> "null"]
Undefined == [tag |-> "undefined"]

\* Strings are sequences of characters so that split can look inside them.
MaskSuffix == <<"-", "m", "a", "s", "k", ".", "p", "n", "g">>
ProcessedSuffix == <<"-", "b", "g", "-", "b", "l", "a", "s", "t", "e", "d", ".", "p", "n", "g">>

\* Index of the first "." of s at or after position k; 0 when there is none.
RECURSIVE FirstDot(_, _)
FirstDot(s, k) ==
    IF k > Len(s) THEN 0
    ELSE IF s[k] = "." THEN k
    ELSE FirstDot(s, k + 1)

\* String.prototype.split("."): the pieces between the dots, in order.
RECURSIVE Split(_)
Split(s) ==
    LET d == FirstDot(s, 1) IN
    IF d = 0 THEN <<s>>
    ELSE <<SubSeq(s, 1, d - 1)>> \o Split(SubSeq(s, d + 1, Len(s)))

\* Truncation at the last dot instead of the first.
BaseNameLastDot(name) ==
    LET parts == Split(name) IN
    IF Len(parts) = 1 THEN name
    ELSE SubSeq(name, 1, Len(name) - Len(parts[Len(parts)]) - 1)

\* image.name.split(".")[0]
BaseName(name) == Split(name)[1]

MaskFileNameOf(name) == BaseName(name) \o MaskSuffix
ProcessedFileNameOf(name) == BaseName(name) \o ProcessedSuffix

\* new File([blob], name, { type: "image/png" })
PngFile(name) == [name |-> name, type |-> "image/png"]

-----------------------------------------------------------------------------
(* The Model Session: initializeModel *)

\* The files the user can pick in the App.
CatPng == <<"c", "a", "t", ".", "p", "n", "g">>
MyCatPng == <<"m", "y", ".", "c", "a", "t", ".", "p", "n", "g">>
UserFiles == { [name |-> CatPng, type |-> "image/*"],
               [name |-> MyCatPng, type |-> "image/*"] }

\* initializeModel is entered and suspends at AutoModel.from_pretrained.
CallInitializeModel ==
    /\ initPc = "notCalled"
    /\ initPc' = "loadingModel"
    /\ UNCHANGED <<model, processor>>

\* AutoModel.from_pretrained resolves; suspends at AutoProcessor.from_pretrained.
LoadModelOk ==
    /\ initPc = "loadingModel"
    /\ model' = TRUE
    /\ initPc' = "loadingProcessor"
    /\ UNCHANGED <<processor, isLoading, image, runs, now, lastSelected>>

\* AutoModel.from_pretrained rejects; the catch block rethrows.
LoadModelFail ==
    /\ initPc = "loadingModel"
    /\ initPc' = "threw"
    /\ UNCHANGED <<model, processor, isLoading, image, runs, now, lastSelected>>

\* AutoProcessor.from_pretrained resolves; initializeModel returns true.
LoadProcessorOk ==
    /\ initPc = "loadingProcessor"
    /\ processor' = TRUE
    /\ initPc' = "returnedTrue"
    /\ UNCHANGED <<model, isLoading, image, runs, now, lastSelected>>

\* AutoProcessor.from_pretrained rejects; the catch block rethrows.
LoadProcessorFail ==
    /\ initPc = "loadingProcessor"
    /\ initPc' = "threw"
    /\ UNCHANGED <<model, processor, isLoading, image, runs, now, lastSelected>>

InitSettled == initPc \in {"returnedTrue", "threw"}

-----------------------------------------------------------------------------
(* The Model Session: processImage *)

\* The guard with the processor test left out.
NotInitializedModelOnly == ~model

\* if (!state.model || !state.processor)
NotInitialized == ~model \/ ~processor

\* A call of processImage(file). closure is the object the caller holds for
\* its continuation: handleClick's image parameter, Null for a direct call.
\* The guard throws before the first await, so the call is rejected at once.
NewRun(file, closure) ==
    IF NotInitialized
    THEN [file |-> file, closure |-> closure, initAtCall |-> initPc,
          pc |-> "rejected", err |-> "Model not initialized", result |-> Undefined]
    ELSE [file |-> file, closure |-> closure, initAtCall |-> initPc,
          pc |-> "decoding", err |-> "", result |-> Undefined]

\* return { maskFile, processedFile }
RunResult(file) ==
    [maskFile |-> PngFile(MaskFileNameOf(file.name)),
     processedFile |-> PngFile(ProcessedFileNameOf(file.name))]

InFlight(r) == r.pc \in {"decoding", "processing"}

-----------------------------------------------------------------------------
(* The App component *)

\* The update with maskFile left out.
SuccessImageNoMask(closure, result) ==
    [closure EXCEPT !.processedFile = result.processedFile]

\* setImage({ ...image, processedFile, maskFile })
SuccessImage(closure, result) ==
    [closure EXCEPT !.processedFile = result.processedFile,
                    !.maskFile = result.maskFile]

\* A catch block that drops the record.
CatchImageCleared(current) == Null

\* catch (error) { console.error(...) }: no state update
CatchImage(current) == current

\* What the caller's continuation does to the App state when run r settles.
AfterResolved(r) ==
    IF r.closure = Null THEN image ELSE SuccessImage(r.closure, r.result)

AfterRejected(r) ==
    IF r.closure = Null THEN image ELSE CatchImage(image)

\* useEffect on mount: the async function starts and awaits initializeModel().
Mount ==
    /\ CallInitializeModel
    /\ UNCHANGED <<isLoading, image, runs, now, lastSelected>>

\* setIsLoading(false) placed inside the try block, after the throw.
LoadingAfterEffectInsideTry == initPc # "returnedTrue"

\* setIsLoading(false), after the try/catch: reached on every outcome.
LoadingAfterEffect == FALSE

\* The effect's continuation: success, or the catch block, then
\* setIsLoading(false).
EffectContinue ==
    /\ InitSettled
    /\ isLoading
    /\ isLoading' = LoadingAfterEffect
    /\ UNCHANGED <<model, processor, initPc, image, runs, now, lastSelected>>

\* The file input and the button are rendered.
InputAvailable == ~isLoading
TriggerAvailable == ~isLoading /\ image # Null

Uploads == IF lastSelected = Null THEN 0 ELSE lastSelected.n

\* handleImageUpload with a file chosen.
HandleImageUpload(file) ==
    /\ InputAvailable
    /\ Uploads < MaxUploads
    /\ image' = [id |-> now, file |-> file,
                 maskFile |-> Undefined, processedFile |-> Undefined]
    /\ lastSelected' = [file |-> file, n |-> Uploads + 1]
    /\ UNCHANGED <<model, processor, initPc, isLoading, runs, now>>

\* handleImageUpload with the selection cancelled: no files, nothing happens.
HandleImageUploadEmpty ==
    /\ InputAvailable
    /\ UNCHANGED appVars

\* onClick={() => handleClick(image)}: processImage(image.file) is called.
\* A rejection by the guard reaches the catch block before any other event.
HandleClick ==
    /\ TriggerAvailable
    /\ Len(runs) < MaxRuns
    /\ LET r == NewRun(image.file, image) IN
        /\ runs' = Append(runs, r)
        /\ image' = IF r.pc = "rejected" THEN AfterRejected(r) ELSE image
    /\ UNCHANGED <<model, processor, initPc, isLoading, now, lastSelected>>

\* RawImage.fromURL resolves.
DecodeOk(k) ==
    /\ runs[k].pc = "decoding"
    /\ runs' = [runs EXCEPT ![k].pc = "processing"]
    /\ UNCHANGED <<model, processor, initPc, isLoading, image, now, lastSelected>>

\* RawImage.fromURL rejects, outside the try block: the error goes to the caller.
DecodeFail(k) ==
    /\ runs[k].pc = "decoding"
    /\ runs' = [runs EXCEPT ![k].pc = "rejected", ![k].err = "decode"]
    /\ image' = AfterRejected(runs[k])
    /\ UNCHANGED <<model, processor, initPc, isLoading, now, lastSelected>>

\* The try block runs to its return; the caller's continuation follows.
ProcessOk(k) ==
    /\ runs[k].pc = "processing"
    /\ LET r == [runs[k] EXCEPT !.pc = "resolved",
                                !.result = RunResult(runs[k].file)] IN
        /\ runs' = [runs EXCEPT ![k] = r]
        /\ image' = AfterResolved(r)
    /\ UNCHANGED <<model, processor, initPc, isLoading, now, lastSelected>>

\* Something in the try block throws (processor, model, resize, 2d context,
\* toBlob); the catch block rethrows "Failed to process image".
ProcessFail(k) ==
    /\ runs[k].pc = "processing"
    /\ runs' = [runs EXCEPT ![k].pc = "rejected",
                            ![k].err = "Failed to process image"]
    /\ image' = AfterRejected(runs[k])
    /\ UNCHANGED <<model, processor, initPc, isLoading, now, lastSelected>>

\* Time passes.
Tick ==
    /\ now < MaxNow
    /\ now' = now + 1
    /\ UNCHANGED <<model, processor, initPc, isLoading, image, runs, lastSelected>>

\* processImage called by some other caller of the module, at any time.
DirectProcessImage(file) ==
    /\ Len(runs) < MaxRuns
    /\ runs' = Append(runs, NewRun(file, Null))
    /\ UNCHANGED <<model, processor, initPc, isLoading, image, now, lastSelected>>

-----------------------------------------------------------------------------
(* Specifications of the App and of the session module *)

AppInit ==
    /\ model = FALSE
    /\ processor = FALSE
    /\ initPc = "notCalled"
    /\ isLoading = TRUE
    /\ image = Null
    /\ runs = <<>>
    /\ now = 0
    /\ lastSelected = Null

NamesIdle ==
    /\ nameIn = <<>>
    /\ namePc = "idle"
    /\ maskFileName = <<>>
    /\ processedFileName = <<>>

PixelsIdle ==
    /\ imgW = 0
    /\ imgH = 0
    /\ imgData = <<>>
    /\ maskData = <<>>
    /\ maskPixelData = <<>>
    /\ pixelData = <<>>
    /\ pxPc = "idle"
    /\ pxI = 0

Init == AppInit /\ NamesIdle /\ PixelsIdle

Next ==
    \/ (Mount /\ UNCHANGED <<nameVars, pixelVars>>)
    \/ (LoadModelOk /\ UNCHANGED <<nameVars, pixelVars>>)
    \/ (LoadModelFail /\ UNCHANGED <<nameVars, pixelVars>>)
    \/ (LoadProcessorOk /\ UNCHANGED <<nameVars, pixelVars>>)
    \/ (LoadProcessorFail /\ UNCHANGED <<nameVars, pixelVars>>)
    \/ (EffectContinue /\ UNCHANGED <<nameVars, pixelVars>>)
    \/ (\E f \in UserFiles : HandleImageUpload(f) /\ UNCHANGED <<nameVars, pixelVars>>)
    \/ (HandleImageUploadEmpty /\ UNCHANGED <<nameVars, pixelVars>>)
    \/ (HandleClick /\ UNCHANGED <<nameVars, pixelVars>>)
    \/ (\E k \in DOMAIN runs : DecodeOk(k) /\ UNCHANGED <<nameVars, pixelVars>>)
    \/ (\E k \in DOMAIN runs : DecodeFail(k) /\ UNCHANGED <<nameVars, pixelVars>>)
    \/ (\E k \in DOMAIN runs : ProcessOk(k) /\ UNCHANGED <<nameVars, pixelVars>>)
    \/ (\E k \in DOMAIN runs : ProcessFail(k) /\ UNCHANGED <<nameVars, pixelVars>>)
    \/ (Tick /\ UNCHANGED <<nameVars, pixelVars>>)

Spec == Init /\ [][Next]_vars

\* The effect's continuation is a scheduled microtask: it runs once the
\* promise of initializeModel has settled.
FairSpec == Spec /\ WF_vars(EffectContinue /\ UNCHANGED <<nameVars, pixelVars>>)

NextLib ==
    \/ (Mount /\ UNCHANGED <<nameVars, pixelVars>>)
    \/ (LoadModelOk /\ UNCHANGED <<nameVars, pixelVars>>)
    \/ (LoadModelFail /\ UNCHANGED <<nameVars, pixelVars>>)
    \/ (LoadProcessorOk /\ UNCHANGED <<nameVars, pixelVars>>)
    \/ (LoadProcessorFail /\ UNCHANGED <<nameVars, pixelVars>>)
    \/ (\E f \in UserFiles : DirectProcessImage(f) /\ UNCHANGED <<nameVars, pixelVars>>)
    \/ (\E k \in DOMAIN runs : DecodeOk(k) /\ UNCHANGED <<nameVars, pixelVars>>)
    \/ (\E k \in DOMAIN runs : DecodeFail(k) /\ UNCHANGED <<nameVars, pixelVars>>)
    \/ (\E k \in DOMAIN runs : ProcessOk(k) /\ UNCHANGED <<nameVars, pixelVars>>)
    \/ (\E k \in DOMAIN runs : ProcessFail(k) /\ UNCHANGED <<nameVars, pixelVars>>)

SpecLib == Init /\ [][NextLib]_vars

-----------------------------------------------------------------------------
(* The file name derivation of processImage, on every short file name *)

Chars == {"a", "b", "."}

\* All strings over Chars of length at most n.
RECURSIVE StringsUpTo(_)
StringsUpTo(n) ==
    IF n = 0 THEN {<<>>}
    ELSE LET shorter == StringsUpTo(n - 1) IN
         shorter \cup {Append(s, c) : s \in {t \in shorter : Len(t) = n - 1}, c \in Chars}

\* const maskFileName = `${image.name.split(".")[0]}-mask.png`
NameMask ==
    /\ namePc = "start"
    /\ maskFileName' = MaskFileNameOf(nameIn)
    /\ namePc' = "maskNamed"
    /\ UNCHANGED <<nameIn, processedFileName>>

\* const [fileName] = image.name.split("."); `${fileName}-bg-blasted.png`
NameProcessed ==
    /\ namePc = "maskNamed"
    /\ processedFileName' = ProcessedFileNameOf(nameIn)
    /\ namePc' = "done"
    /\ UNCHANGED <<nameIn, maskFileName>>

InitNames ==
    /\ AppInit
    /\ PixelsIdle
    /\ nameIn \in StringsUpTo(MaxNameLen)
    /\ namePc = "start"
    /\ maskFileName = <<>>
    /\ processedFileName = <<>>

NextNames ==
    \/ (NameMask /\ UNCHANGED <<appVars, pixelVars>>)
    \/ (NameProcessed /\ UNCHANGED <<appVars, pixelVars>>)

SpecNames == InitNames /\ [][NextNames]_vars

-----------------------------------------------------------------------------
(* The pixel loops of processImage, on every small bitmap *)

\* Values of the Pixel Buffer (uint8).
GrayValues == {0, 128, 255}

\* RGBA pixels of the decoded source bitmap.
SourcePixels == { <<10, 20, 30, 255>>, <<199, 100, 50, 128>> }

Shapes == { wh \in (1..MaxPixels) \X (1..MaxPixels) : wh[1] * wh[2] <= MaxPixels }

\* All sequences of length n over S.
SeqsOfLen(S, n) == [1..n -> S]

\* The bytes of a sequence of RGBA pixels, in order.
RECURSIVE Flatten(_)
Flatten(pixels) ==
    IF pixels = <<>> THEN <<>> ELSE Head(pixels) \o Flatten(Tail(pixels))

\* data[idx] = value on a typed array: a store past the end is ignored.
Store(data, idx, value) ==
    IF idx < Len(data) THEN [data EXCEPT ![idx + 1] = value] ELSE data

\* A mask loop body that writes the value into the alpha channel too.
MaskStoreAlphaFromValue(data, i, value) ==
    Store(Store(Store(Store(data, 4 * i, value), 4 * i + 1, value),
                4 * i + 2, value), 4 * i + 3, value)

\* maskPixelData.data[4 * i .. 4 * i + 3] = value, value, value, 255
MaskStore(data, i, value) ==
    Store(Store(Store(Store(data, 4 * i, value), 4 * i + 1, value),
                4 * i + 2, value), 4 * i + 3, 255)

\* An alpha loop body that is off by the channel offset.
AlphaStoreNoOffset(data, i, value) == Store(data, 4 * i, value)

\* pixelData.data[4 * i + 3] = maskData[i]
AlphaStore(data, i, value) == Store(data, 4 * i + 3, value)

\* maskCtx.createImageData(img.width, img.height): transparent black.
CreateImageData ==
    /\ pxPc = "start"
    /\ maskPixelData' = [j \in 1..(4 * imgW * imgH) |-> 0]
    /\ pxI' = 0
    /\ pxPc' = "maskLoop"
    /\ UNCHANGED <<imgW, imgH, imgData, maskData, pixelData>>

\* One iteration of the mask loop.
MaskLoopStep ==
    /\ pxPc = "maskLoop"
    /\ pxI < Len(maskData)
    /\ maskPixelData' = MaskStore(maskPixelData, pxI, maskData[pxI + 1])
    /\ pxI' = pxI + 1
    /\ UNCHANGED <<imgW, imgH, imgData, maskData, pixelData, pxPc>>

\* The mask loop ends; the mask canvas is encoded.
MaskLoopEnd ==
    /\ pxPc = "maskLoop"
    /\ pxI >= Len(maskData)
    /\ pxPc' = "maskDone"
    /\ UNCHANGED <<imgW, imgH, imgData, maskData, maskPixelData, pixelData, pxI>>

\* ctx.drawImage(img.toCanvas(), 0, 0) on a fresh canvas of the bitmap's size,
\* then ctx.getImageData(0, 0, img.width, img.height): the bitmap's bytes.
DrawAndGetImageData ==
    /\ pxPc = "maskDone"
    /\ pixelData' = imgData
    /\ pxI' = 0
    /\ pxPc' = "alphaLoop"
    /\ UNCHANGED <<imgW, imgH, imgData, maskData, maskPixelData>>

\* One iteration of the alpha loop.
AlphaLoopStep ==
    /\ pxPc = "alphaLoop"
    /\ pxI < Len(maskData)
    /\ pixelData' = AlphaStore(pixelData, pxI, maskData[pxI + 1])
    /\ pxI' = pxI + 1
    /\ UNCHANGED <<imgW, imgH, imgData, maskData, maskPixelData, pxPc>>

\* The alpha loop ends; the canvas is encoded.
AlphaLoopEnd ==
    /\ pxPc = "alphaLoop"
    /\ pxI >= Len(maskData)
    /\ pxPc' = "done"
    /\ UNCHANGED <<imgW, imgH, imgData, maskData, maskPixelData, pixelData, pxI>>

InitPixels ==
    /\ AppInit
    /\ NamesIdle
    /\ \E wh \in Shapes :
        /\ imgW = wh[1]
        /\ imgH = wh[2]
        /\ imgData \in {Flatten(p) : p \in SeqsOfLen(SourcePixels, wh[1] * wh[2])}
        /\ maskData \in SeqsOfLen(GrayValues, wh[1] * wh[2])
    /\ maskPixelData = <<>>
    /\ pixelData = <<>>
    /\ pxPc = "start"
    /\ pxI = 0

NextPixels ==
    \/ (CreateImageData /\ UNCHANGED <<appVars, nameVars>>)
    \/ (MaskLoopStep /\ UNCHANGED <<appVars, nameVars>>)
    \/ (MaskLoopEnd /\ UNCHANGED <<appVars, nameVars>>)
    \/ (DrawAndGetImageData /\ UNCHANGED <<appVars, nameVars>>)
    \/ (AlphaLoopStep /\ UNCHANGED <<appVars, nameVars>>)
    \/ (AlphaLoopEnd /\ UNCHANGED <<appVars, nameVars>>)

SpecPixels == InitPixels /\ [][NextPixels]_vars

-----------------------------------------------------------------------------
(* Properties *)

Loaded == model /\ processor

\* C1 (SpecLib): every call of processImage made while initializeModel has not
\* returned true (not yet called, pending, or thrown) is rejected with the
\* not-initialized error and carries no result.
C1_NotInitializedFails ==
    \A k \in DOMAIN runs :
        runs[k].initAtCall # "returnedTrue" =>
            /\ runs[k].pc = "rejected"
            /\ runs[k].err = "Model not initialized"
            /\ runs[k].result = Undefined

\* Calls made while the processor was still loading, with the model already
\* loaded, and after the processor failed to load.
C1_Witness ==
    /\ model /\ ~processor /\ initPc = "threw"
    /\ \E b, c \in DOMAIN runs :
        /\ runs[b].initAtCall = "loadingProcessor" /\ runs[b].pc = "rejected"
        /\ runs[c].initAtCall = "threw" /\ runs[c].pc = "rejected"

\* C2 (Spec): at most one call of processImage is in flight at any time.
C2_OneInFlight ==
    Cardinality({k \in DOMAIN runs : InFlight(runs[k])}) <= 1

\* C3 (Spec): once a file has been selected, the current Image Record's source
\* is the most recently selected file.
C3_SourceIsLatestSelection ==
    lastSelected # Null => (image # Null /\ image.file = lastSelected.file)

\* C4 (Spec): whenever the Process trigger can be pressed the session is
\* loaded, and no call of processImage was made while it was not.
C4_TriggerImpliesLoaded ==
    /\ TriggerAvailable => Loaded
    /\ \A k \in DOMAIN runs : runs[k].initAtCall = "returnedTrue"

\* C5 (Spec): the current Image Record has a mask exactly when it has a
\* composite, and a call of processImage has both artifacts or none.
C5_MaskIffComposite ==
    /\ image # Null =>
        ((image.maskFile = Undefined) <=> (image.processedFile = Undefined))
    /\ \A k \in DOMAIN runs :
        \/ runs[k].result = Undefined
        \/ (runs[k].pc = "resolved"
            /\ runs[k].result.maskFile # Undefined
            /\ runs[k].result.processedFile # Undefined)

\* A processed record.
C5_Witness ==
    /\ image # Null
    /\ image.maskFile # Undefined
    /\ image.processedFile # Undefined

\* C6 (SpecPixels): once the mask loop has ended, the mask pixel data has
\* exactly W*H pixels and pixel i is (buffer[i], buffer[i], buffer[i], 255).
C6_MaskPixels ==
    pxPc \in {"maskDone", "alphaLoop", "done"} =>
        /\ Len(maskData) = imgW * imgH
        /\ Len(maskPixelData) = 4 * imgW * imgH
        /\ \A i \in 0..(imgW * imgH - 1) :
            /\ maskPixelData[4 * i + 1] = maskData[i + 1]
            /\ maskPixelData[4 * i + 2] = maskData[i + 1]
            /\ maskPixelData[4 * i + 3] = maskData[i + 1]
            /\ maskPixelData[4 * i + 4] = 255

C6_Witness ==
    /\ pxPc = "maskDone"
    /\ imgW = 2 /\ imgH = 2
    /\ maskData = <<0, 128, 255, 128>>

\* C7 (SpecPixels): once the alpha loop has ended, the composite pixel data
\* has the source's red, green and blue at every pixel and buffer[i] as alpha.
C7_CompositePixels ==
    pxPc = "done" =>
        /\ Len(pixelData) = Len(imgData)
        /\ \A i \in 0..(imgW * imgH - 1) :
            /\ pixelData[4 * i + 1] = imgData[4 * i + 1]
            /\ pixelData[4 * i + 2] = imgData[4 * i + 2]
            /\ pixelData[4 * i + 3] = imgData[4 * i + 3]
            /\ pixelData[4 * i + 4] = maskData[i + 1]

\* A 2x2 bitmap whose alpha channel differs from the buffer at every pixel.
C7_Witness ==
    /\ pxPc = "done"
    /\ imgW = 2 /\ imgH = 2
    /\ \A i \in 0..3 : imgData[4 * i + 4] # maskData[i + 1]
    /\ \E i \in 0..3 : imgData[4 * i + 1] # maskData[i + 1]

\* C8 (SpecNames): the mask file is named <basename>-mask.png and the composite
\* <basename>-bg-blasted.png, where <basename> is the part of the source name
\* before its first "." (the whole name without one, empty when it starts with
\* one); "my.cat.png" gives "my-mask.png".
C8_FileNames ==
    /\ MaskFileNameOf(MyCatPng) = <<"m", "y">> \o MaskSuffix
    /\ namePc \in {"maskNamed", "done"} =>
        \E b \in 0..Len(nameIn) :
            /\ \A j \in 1..b : nameIn[j] # "."
            /\ b = Len(nameIn) \/ nameIn[b + 1] = "."
            /\ maskFileName = SubSeq(nameIn, 1, b) \o MaskSuffix
            /\ namePc = "done" =>
                processedFileName = SubSeq(nameIn, 1, b) \o ProcessedSuffix

\* A name with two dots.
C8_Witness ==
    /\ namePc = "done"
    /\ nameIn = <<"a", ".", "b", ".">>
    /\ maskFileName = <<"a">> \o MaskSuffix
    /\ processedFileName = <<"a">> \o ProcessedSuffix

\* C9 (FairSpec): the controller starts in Loading; once initializeModel has
\* settled (returned or thrown) it leaves Loading; Loading is never entered
\* again.
C9_LeavesLoading ==
    /\ (isLoading = TRUE)
    /\ (InitSettled ~> ~isLoading)
    /\ [][~isLoading => ~isLoading']_vars

\* Ready after a failed initialization.
C9_Witness == initPc = "threw" /\ ~isLoading

\* C10 (Spec): a step in which a call of processImage becomes rejected leaves
\* the current Image Record as it was.
C10_FailureKeepsRecord ==
    [][\A k \in DOMAIN runs' :
        (runs'[k].pc = "rejected" /\ (k > Len(runs) \/ runs[k].pc # "rejected"))
            => image' = image]_vars

\* A processed record that was processed again, the second run failing in the
\* try block: the record keeps its artifacts.
C10_Witness ==
    /\ image # Null
    /\ image.maskFile # Undefined
    /\ \E k \in DOMAIN runs :
        /\ runs[k].pc = "rejected"
        /\ runs[k].err = "Failed to process image"
        /\ runs[k].closure = image

====
